---------------------------- MODULE Spec2Model ----------------------------
(***************************************************************************)
(* A model of the BattlEye RCon client: the packet codec of rconmsg.cc     *)
(* (encode, decode, CRC-32 framing, text extraction) and the session that  *)
(* RconApp::run drives over a datagram socket (login, command cycles,      *)
(* server-message acknowledgment).                                         *)
(*                                                                         *)
(* Bytes are integers 0..255; a buffer of `length` bytes is a sequence, so *)
(* the byte at C offset i is buffer[i + 1].  Strings are byte sequences.   *)
(***************************************************************************)
EXTENDS Integers, Sequences, FiniteSets, TLC

VARIABLES
    \* ---- codec harness: one message through encode, the wire, decode ----
    cpc,        \* "new" | "encoded" | "decoded"
    cmsg,       \* the message handed to encode
    cbuf,       \* the bytes on the wire
    ctamper,    \* what happened to cbuf on the wire
    cout,       \* what Message::decode did with cbuf
    \* ---- session: RconApp::run under main ----
    pc,         \* where run() is: "start" | "login_recv" | "ready" | "await" | "exited"
    interactive,\* mOptions["interactive"]
    quiet,      \* mOptions["quiet"]
    mPassword,  \* RconApp::mPassword, as read from rcon.cfg
    argCmd,     \* argv[optind+2], the command of a non-interactive run
    cmdStr,     \* run()'s cmdStr: the command string read last
    mNextSeqNum,\* Message::mNextSeqNum
    issued,     \* every value Message::getNextSeqNum has returned, in order
    buf,        \* receivePacket's buf[0..nread) after the last read()
    trace,      \* transport history: sends, receives and their failures
    logged,     \* every text handed to RconApp::log, in order
    output,     \* what reached std::cout
    errKind,    \* class of the exception that ended run(), or "none"
    errMsg,     \* the message it was constructed with
    exitCode,   \* main's return value; -1 while running
    closed,     \* number of close(mSocketFd) calls
    nCmds,      \* commands read so far  (bounds the exploration)
    nRecv,      \* packets received so far (bounds the exploration)
    \* ---- two runs on the same inputs ----
    script,     \* the inputs of the first run, in order; then what is left of them
    first       \* how the first run ended, once it has

codecVars == <<cpc, cmsg, cbuf, ctamper, cout>>
sessVars == <<pc, interactive, quiet, mPassword, argCmd, cmdStr, mNextSeqNum, issued, buf,
              trace,
              logged, output, errKind, errMsg, exitCode, closed, nCmds, nRecv>>
twinVars == <<script, first>>
vars == <<codecVars, sessVars, twinVars>>

(***************************************************************************)
(* Bounds of the exploration.                                              *)
(***************************************************************************)
MaxText == 2    \* longest password / text / command string of the codec harness
MaxCmds == 2    \* commands read from std::cin in one interactive run
MaxRecv == 3    \* packets the server delivers in one run
MaxAllocs == 258 \* calls of getNextSeqNum in a run of the allocator alone
MaxLongCmds == 257 \* commands read in one long interactive run

(***************************************************************************)
(* Program constants.                                                      *)
(***************************************************************************)
PKT_LOGIN == 0
PKT_MULTI == 0
PKT_CMD == 1
PKT_SERVER == 2
BUF_SIZE == 2048

Byte == 0..255

\* Byte at C offset i of a buffer.
At(buffer, i) == buffer[i + 1]

\* bytes[from .. length) of a buffer, C offsets.
From(buffer, from) == SubSeq(buffer, from + 1, Len(buffer))

(***************************************************************************)
(* zlib crc32(0L, buf, len): CRC-32, reflected polynomial 0xEDB88320,      *)
(* initial value and final xor 0xFFFFFFFF.  The 32-bit register is kept as *)
(* <<high 16 bits, low 16 bits>>.                                          *)
(***************************************************************************)
RECURSIVE Xor16(_, _, _)
Xor16(a, b, n) ==
    IF n = 0 THEN 0
    ELSE ((a + b) % 2) + 2 * Xor16(a \div 2, b \div 2, n - 1)

RECURSIVE CrcBits(_, _)
CrcBits(reg, n) ==
    IF n = 0 THEN reg
    ELSE LET hi == reg[1] \div 2
             lo == (reg[2] \div 2) + (reg[1] % 2) * 32768
         IN  IF reg[2] % 2 = 1
             THEN CrcBits(<<Xor16(hi, 60856, 16), Xor16(lo, 33568, 16)>>, n - 1)
             ELSE CrcBits(<<hi, lo>>, n - 1)

\* The register after the bytes s[lo..hi], taken in order.  The range is
\* halved, and the first half is evaluated before the second is entered, so
\* that a buffer of BUF_SIZE bytes is evaluated at a small nesting depth.
RECURSIVE CrcBytes(_, _, _, _)
CrcBytes(reg, s, lo, hi) ==
    IF lo > hi THEN reg
    ELSE IF lo = hi THEN CrcBits(<<reg[1], Xor16(reg[2], s[lo], 16)>>, 8)
    ELSE LET mid == (lo + hi) \div 2
             left == CrcBytes(reg, s, lo, mid)
         IN  IF left[1] \in Nat THEN CrcBytes(left, s, mid + 1, hi) ELSE left

crc32(s) ==
    LET r == CrcBytes(<<65535, 65535>>, s, 1, Len(s))
    IN  <<Xor16(r[1], 65535, 16), Xor16(r[2], 65535, 16)>>

\* The four bytes a big-endian host would store for a uint32_t.
StoreLE_BigEndian(crc) ==
    <<crc[1] \div 256, crc[1] % 256, crc[2] \div 256, crc[2] % 256>>

\* The four bytes a little-endian host stores for a uint32_t.
StoreLE(crc) ==
    <<crc[2] % 256, crc[2] \div 256, crc[1] % 256, crc[1] \div 256>>

\* The uint32_t a little-endian host loads from bytes 2..5 of a buffer.
LoadLE(buffer) ==
    <<At(buffer, 4) + 256 * At(buffer, 5), At(buffer, 2) + 256 * At(buffer, 3)>>

(***************************************************************************)
(* The message classes of rconmsg.hh, one record per class.                *)
(***************************************************************************)
NoMsg == [mType |-> "MSG_NONE"]
Login(password) == [mType |-> "MSG_LOGIN", mPassword |-> password]
LoginResponse(result) == [mType |-> "MSG_LOGIN_RESP", mResult |-> result]
ServerMessage(seqnum, msg) ==
    [mType |-> "MSG_SRV_MSG", mSeqNum |-> seqnum, mMsg |-> msg]
ServerAck(seqnum) == [mType |-> "MSG_SRV_ACK", mSeqNum |-> seqnum]
Command(cmd, seqnum) ==
    [mType |-> "MSG_CMD", mSeqNum |-> seqnum, mCmdStr |-> cmd]
CommandResponse(seqnum, msg) ==
    [mType |-> "MSG_CMD_RESP", mSeqNum |-> seqnum, mMsg |-> msg]
CommandPartialResponse(nofParts, partIdx, msg) ==
    [mType |-> "MSG_CMD_PART_RESP", mNofParts |-> nofParts,
     mPartIdx |-> partIdx, mMsg |-> msg]

(***************************************************************************)
(* Encoding.                                                               *)
(***************************************************************************)
\* Message::encodeHeader: offsets 0..6.  std::fill(buffer+2, buffer+5) leaves
\* offset 5 as it was; calculateCrc overwrites offsets 2..5 before any use.
encodeHeader == <<66, 69, 0, 0, 0, 0, 255>>

\* Message::calculateCrc on a buffer holding `length` = Len(buffer) bytes.
calculateCrc(buffer) ==
    SubSeq(buffer, 1, 2) \o StoreLE(crc32(From(buffer, 6))) \o From(buffer, 6)

Login_encode(m) == calculateCrc(encodeHeader \o <<PKT_LOGIN>> \o m.mPassword)
LoginResponse_encode(m) ==
    calculateCrc(encodeHeader \o <<PKT_LOGIN, m.mResult>>)
ServerMessage_encode(m) ==
    calculateCrc(encodeHeader \o <<PKT_SERVER, m.mSeqNum>> \o m.mMsg)
ServerAck_encode(m) == calculateCrc(encodeHeader \o <<PKT_SERVER, m.mSeqNum>>)
Command_encode(m) ==
    calculateCrc(encodeHeader \o <<PKT_CMD, m.mSeqNum>> \o m.mCmdStr)
CommandResponse_encode(m) ==
    calculateCrc(encodeHeader \o <<PKT_CMD, m.mSeqNum>> \o m.mMsg)
\* CommandPartialResponse::encode without the part index at offset 9.
CommandPartialResponse_encode_NoIndex(m) ==
    calculateCrc(encodeHeader \o <<PKT_MULTI, m.mNofParts>> \o m.mMsg)

CommandPartialResponse_encode(m) ==
    calculateCrc(encodeHeader \o <<PKT_MULTI, m.mNofParts, m.mPartIdx>> \o m.mMsg)

\* The virtual call msg->encode(buf).
encode(m) ==
    CASE m.mType = "MSG_LOGIN" -> Login_encode(m)
      [] m.mType = "MSG_LOGIN_RESP" -> LoginResponse_encode(m)
      [] m.mType = "MSG_SRV_MSG" -> ServerMessage_encode(m)
      [] m.mType = "MSG_SRV_ACK" -> ServerAck_encode(m)
      [] m.mType = "MSG_CMD" -> Command_encode(m)
      [] m.mType = "MSG_CMD_RESP" -> CommandResponse_encode(m)
      [] m.mType = "MSG_CMD_PART_RESP" -> CommandPartialResponse_encode(m)

(***************************************************************************)
(* Decoding.                                                               *)
(***************************************************************************)
\* std::string(const char *) of the copied bytes: everything before the
\* first 0x00.
RECURSIVE CString(_)
CString(bytes) ==
    IF bytes = <<>> \/ Head(bytes) = 0 THEN <<>>
    ELSE <<Head(bytes)>> \o CString(Tail(bytes))

\* Message::extractStr(buffer, length), given the `length` bytes it copies.
extractStr(bytes) == CString(bytes)

\* What a call of Message::decode can end in.
Decoded(m) == [kind |-> "msg", msg |-> m, what |-> ""]
Thrown(class, what) == [kind |-> class, msg |-> NoMsg, what |-> what]
Crashed == [kind |-> "crash", msg |-> NoMsg, what |-> ""]

\* Values an out-of-bounds read can return.
StrayBytes == {0, 255}
StrayTexts == {<<>>, <<65>>}

\* checkHeader without the test of the marker at offset 6.
checkHeader_NoMarker(buffer) ==
    IF Len(buffer) < 8
    THEN {Thrown("ProtocolException", "Empty packet received!")}
    ELSE IF At(buffer, 0) # 66 \/ At(buffer, 1) # 69
    THEN {Thrown("ProtocolException", "Key bytes 'B','E' were not matched in packet header!")}
    ELSE IF crc32(From(buffer, 6)) # LoadLE(buffer)
    THEN {Thrown("ProtocolException", "CRC32 check failed")}
    ELSE {}

\* checkHeader without the test of the key bytes at offsets 0 and 1.
checkHeader_NoMagic(buffer) ==
    IF Len(buffer) < 8
    THEN {Thrown("ProtocolException", "Empty packet received!")}
    ELSE IF crc32(From(buffer, 6)) # LoadLE(buffer)
    THEN {Thrown("ProtocolException", "CRC32 check failed")}
    ELSE IF At(buffer, 6) # 255
    THEN {Thrown("ProtocolException", "Unexpected byte received at position 6!")}
    ELSE {}

\* checkHeader without the comparison of the checksum.
checkHeader_NoChecksum(buffer) ==
    IF Len(buffer) < 8
    THEN {Thrown("ProtocolException", "Empty packet received!")}
    ELSE IF At(buffer, 0) # 66 \/ At(buffer, 1) # 69
    THEN {Thrown("ProtocolException", "Key bytes 'B','E' were not matched in packet header!")}
    ELSE IF At(buffer, 6) # 255
    THEN {Thrown("ProtocolException", "Unexpected byte received at position 6!")}
    ELSE {}

\* Message::decode, the tests before the switch: the exception thrown, or
\* the empty set when the packet passes.
checkHeader(buffer) ==
    IF Len(buffer) < 8
    THEN {Thrown("ProtocolException", "Empty packet received!")}
    ELSE IF At(buffer, 0) # 66 \/ At(buffer, 1) # 69
    THEN {Thrown("ProtocolException", "Key bytes 'B','E' were not matched in packet header!")}
    ELSE IF crc32(From(buffer, 6)) # LoadLE(buffer)
    THEN {Thrown("ProtocolException", "CRC32 check failed")}
    ELSE IF At(buffer, 6) # 255
    THEN {Thrown("ProtocolException", "Unexpected byte received at position 6!")}
    ELSE {}

\* isLoginResponse taking every type-0 packet of 9 bytes or more.
isLoginResponse_AtLeast9(length) == length >= 9

\* The test that tells a LoginResponse from a CommandPartialResponse.
isLoginResponse(length) == length = 9

\* Message::decode, the switch on buffer[7]: the set of its possible outcomes.
\* It is a single outcome except for an 8-byte packet of type 1 or 2, where
\* length - 9 wraps around as a size_t: extractStr then allocates new char[0],
\* copies from beyond the packet and writes tmp[-1].  For an 8-byte packet of
\* type 0, length - 10 wraps and new char[length + 1] throws std::bad_alloc.
decodePayload(buffer) ==
    LET length == Len(buffer) IN
    CASE At(buffer, 7) = PKT_LOGIN ->
            IF isLoginResponse(length)
            THEN {Decoded(LoginResponse(At(buffer, 8)))}
            ELSE IF length < 10
            THEN {Thrown("std::bad_alloc", "")}
            ELSE {Decoded(CommandPartialResponse(At(buffer, 8), At(buffer, 9),
                                                 extractStr(From(buffer, 10))))}
      [] At(buffer, 7) = PKT_CMD ->
            IF length < 9
            THEN {Crashed} \cup
                 {Decoded(CommandResponse(s, t)) : s \in StrayBytes, t \in StrayTexts}
            ELSE {Decoded(CommandResponse(At(buffer, 8), extractStr(From(buffer, 9))))}
      [] At(buffer, 7) = PKT_SERVER ->
            IF length < 9
            THEN {Crashed} \cup
                 {Decoded(ServerMessage(s, t)) : s \in StrayBytes, t \in StrayTexts}
            ELSE {Decoded(ServerMessage(At(buffer, 8), extractStr(From(buffer, 9))))}
      [] OTHER ->
            {Thrown("ProtocolException", "Unknown message type received!")}

\* Message::decode(buffer, length) with length = Len(buffer).
decode(buffer) ==
    IF checkHeader(buffer) # {} THEN checkHeader(buffer) ELSE decodePayload(buffer)

(***************************************************************************)
(* The codec harness: a message is encoded, the datagram may be damaged on *)
(* the wire (one byte replaced, or cut short), a sender may recompute the  *)
(* checksum over the damaged bytes, and the receiver decodes what arrives. *)
(***************************************************************************)
TextBytes == {0, 65}
FieldBytes == {0, 1, 255}

RECURSIVE SeqsUpTo(_, _)
SeqsUpTo(S, n) ==
    IF n = 0 THEN {<<>>}
    ELSE LET shorter == SeqsUpTo(S, n - 1)
         IN  shorter \cup {Append(t, b) : t \in shorter, b \in S}

Texts == SeqsUpTo(TextBytes, MaxText)

\* The password "secret".
secretStr == <<115, 101, 99, 114, 101, 116>>

Messages ==
    {Login(t) : t \in Texts \cup {secretStr}}
    \cup {LoginResponse(r) : r \in FieldBytes}
    \cup {ServerMessage(s, t) : s \in FieldBytes, t \in Texts}
    \cup {ServerAck(s) : s \in FieldBytes}
    \cup {Command(t, s) : t \in Texts, s \in FieldBytes}
    \cup {CommandResponse(s, t) : s \in FieldBytes, t \in Texts}
    \cup {CommandPartialResponse(n, i, t) : n \in {1, 2}, i \in {0, 1}, t \in Texts}

NoOutcome == [kind |-> "none", msg |-> NoMsg, what |-> ""]

CorruptOffsets == {0, 1, 2, 6, 7, 8}
CorruptBytes == {0, 1, 2, 3, 255}

CodecEncode ==
    /\ cpc = "new"
    /\ cbuf' = encode(cmsg)
    /\ cpc' = "encoded"
    /\ UNCHANGED <<cmsg, ctamper, cout, sessVars, twinVars>>

CodecCorrupt ==
    /\ cpc = "encoded" /\ ctamper = "none"
    /\ \E i \in CorruptOffsets, b \in CorruptBytes :
          /\ i < Len(cbuf)
          /\ At(cbuf, i) # b
          /\ cbuf' = [cbuf EXCEPT ![i + 1] = b]
    /\ ctamper' = "corrupt"
    /\ UNCHANGED <<cpc, cmsg, cout, sessVars, twinVars>>

CodecTruncate ==
    /\ cpc = "encoded" /\ ctamper = "none"
    /\ \E n \in 0..(Len(cbuf) - 1) : cbuf' = SubSeq(cbuf, 1, n)
    /\ ctamper' = "cut"
    /\ UNCHANGED <<cpc, cmsg, cout, sessVars, twinVars>>

CodecRecalc ==
    /\ cpc = "encoded" /\ ctamper \in {"corrupt", "cut"}
    /\ Len(cbuf) >= 6
    /\ cbuf' = calculateCrc(cbuf)
    /\ ctamper' = IF ctamper = "corrupt" THEN "corrupt+crc" ELSE "cut+crc"
    /\ UNCHANGED <<cpc, cmsg, cout, sessVars, twinVars>>

\* Byte b with bit k inverted.
FlipBit(b, k) == IF (b \div (2 ^ k)) % 2 = 1 THEN b - 2 ^ k ELSE b + 2 ^ k

\* One bit of the marker, the type byte or the payload is inverted on the wire.
CodecFlipBit ==
    /\ cpc = "encoded" /\ ctamper = "none"
    /\ \E i \in 6..(Len(cbuf) - 1), k \in 0..7 :
          cbuf' = [cbuf EXCEPT ![i + 1] = FlipBit(At(cbuf, i), k)]
    /\ ctamper' = "bitflip"
    /\ UNCHANGED <<cpc, cmsg, cout, sessVars, twinVars>>

CodecDecode ==
    /\ cpc = "encoded"
    /\ cout' \in decode(cbuf)
    /\ cpc' = "decoded"
    /\ UNCHANGED <<cmsg, cbuf, ctamper, sessVars, twinVars>>

(***************************************************************************)
(* RconApp::sendPacket and its buffer: uint8_t buf[BUF_SIZE] on the stack, *)
(* filled by msg->encode(buf) and handed to write().  The messages sent    *)
(* are a Login with the configured password, a Command with a word read    *)
(* from the input or the command line, and a ServerAck; the password and   *)
(* the word have the lengths around what the buffer can take.              *)
(***************************************************************************)
MaxSlack == 1

\* A text of n bytes 'a'.
Fill(n) == [i \in 1..n |-> 97]

\* The text lengths within MaxSlack of the longest one that fits behind
\* `fixed` bytes of header and fields.
EdgeLengths(fixed) ==
    (BUF_SIZE - fixed - MaxSlack)..(BUF_SIZE - fixed + MaxSlack)

SendMessages ==
    {Login(Fill(n)) : n \in EdgeLengths(8)}
    \cup {Command(Fill(n), 0) : n \in EdgeLengths(9)}
    \cup {ServerAck(s) : s \in Byte}

Written(m) == [kind |-> "written", msg |-> m, what |-> ""]

\* What write(mSocketFd, buf, len) and the return from sendPacket can end
\* in.  Stores beyond buf[BUF_SIZE - 1] are undefined behaviour: the frame
\* of sendPacket is overwritten, and the call may crash as well as go on.
writeOutcomes(m, length) ==
    {Written(m), Thrown("ProtocolException", "partial/failed write")}
    \cup (IF length > BUF_SIZE THEN {Crashed} ELSE {})

SendWrite ==
    /\ cpc = "encoded"
    /\ cout' \in writeOutcomes(cmsg, Len(cbuf))
    /\ cpc' = "written"
    /\ UNCHANGED <<cmsg, cbuf, ctamper, sessVars, twinVars>>

(***************************************************************************)
(* The session.                                                            *)
(***************************************************************************)
quitStr == <<113, 117, 105, 116>>
exitStr == <<101, 120, 105, 116>>

\* argv[argc], the null pointer that ends the argument vector: what
\* argv[optind+2] is when no command was given.
NullArg == <<-1>>

\* Configurations and inputs explored.
Passwords == {<<>>, <<112, 119>>}
ArgCmds == {<<115>>, quitStr, NullArg}
CinWords == {quitStr, exitStr, <<>>, <<115>>}

\* Datagrams the server (or the network) delivers to read().
RecvPackets ==
    { encode(LoginResponse(0)), encode(LoginResponse(1)), encode(LoginResponse(255)),
      encode(CommandResponse(0, <<65>>)), encode(CommandResponse(9, <<>>)),
      encode(CommandPartialResponse(2, 0, <<65>>)),
      encode(CommandPartialResponse(2, 1, <<66>>)),
      encode(ServerMessage(5, <<67>>)), encode(ServerMessage(255, <<>>)),
      <<>>,
      [encode(LoginResponse(1)) EXCEPT ![1] = 0],
      [encode(LoginResponse(1)) EXCEPT ![9] = 0],
      calculateCrc([encode(LoginResponse(1)) EXCEPT ![7] = 0]),
      calculateCrc([encode(LoginResponse(1)) EXCEPT ![8] = 3]),
      calculateCrc(encodeHeader \o <<PKT_LOGIN>>),
      calculateCrc(encodeHeader \o <<PKT_CMD>>),
      calculateCrc(encodeHeader \o <<PKT_SERVER>>) }

\* Every (datagram, decode outcome) pair.
Deliveries == UNION {{<<p, d>> : d \in decode(p)} : p \in RecvPackets}

Event(ev, m) == [ev |-> ev, msg |-> m]

\* What std::cout receives.
Banner == [kind |-> "banner", text |-> <<>>]
Prompt == [kind |-> "prompt", text |-> <<>>]
Line(text) == [kind |-> "log", text |-> text]

\* rconText << text << std::endl
Chunk(text) == Append(text, 10)

\* RconApp::log appended to what std::cout has received.
log(out, chunk) == IF quiet THEN out ELSE Append(out, Line(chunk))

\* main: AppException and Exception are caught and main returns 1; anything
\* else leaves main by std::terminate (abort, status 134) or, for a crash in
\* undefined behaviour, by a signal (status 139).
ExitStatus(kind) ==
    IF kind \in {"AppException", "SocketException", "ProtocolException"} THEN 1
    ELSE IF kind \in {"std::bad_alloc", "std::logic_error"} THEN 134
    ELSE 139

\* run() ends by an exception of class `kind`.
Throw(kind, what, tr, lg, out, cl) ==
    /\ pc' = "exited"
    /\ errKind' = kind
    /\ errMsg' = what
    /\ exitCode' = ExitStatus(kind)
    /\ trace' = tr
    /\ logged' = lg
    /\ output' = out
    /\ closed' = cl

\* run() goes on to its next blocking point.
Goto(where, tr, lg, out) ==
    /\ pc' = where
    /\ trace' = tr
    /\ logged' = lg
    /\ output' = out
    /\ UNCHANGED <<errKind, errMsg, exitCode, closed>>

\* closeConnection(); run() returns; main returns 0.
Return(tr, lg, out) ==
    /\ pc' = "exited"
    /\ exitCode' = 0
    /\ closed' = closed + 1
    /\ trace' = tr
    /\ logged' = lg
    /\ output' = out
    /\ UNCHANGED <<errKind, errMsg>>

\* RconApp::sendPacket(msg) as the last thing run() does before it blocks in
\* `where`: write() takes the whole datagram, or sendPacket throws.
sendPacket(msg, written, where, tr, lg, out) ==
    IF written
    THEN Goto(where, Append(tr, Event("send", msg)), lg, out)
    ELSE Throw("ProtocolException", "partial/failed write",
               Append(tr, Event("writefail", msg)), lg, out, closed)

\* receiveFailure waiting again after a timeout instead of throwing.
receiveFailure_Retry(how) ==
    CASE how = "selecterr" ->
            Throw("ProtocolException", "select() error",
                  Append(trace, Event("selecterr", NoMsg)), logged, output, closed)
      [] how = "timeout" ->
            Goto(pc, Append(trace, Event("timeout", NoMsg)), logged, output)
      [] how = "readerr" ->
            Throw("ProtocolException", "socket read error",
                  Append(trace, Event("readerr", NoMsg)), logged, output, closed + 1)

\* receiveFailure with select() given no timeout: a wait for a packet that
\* does not come never returns.
receiveFailure_NoTimeout(how) ==
    CASE how = "selecterr" ->
            Throw("ProtocolException", "select() error",
                  Append(trace, Event("selecterr", NoMsg)), logged, output, closed)
      [] how = "timeout" -> FALSE
      [] how = "readerr" ->
            Throw("ProtocolException", "socket read error",
                  Append(trace, Event("readerr", NoMsg)), logged, output, closed + 1)

\* RconApp::receivePacket when it returns no message: select() fails, the
\* wait times out, or read() fails (the only path that closes the socket).
receiveFailure(how) ==
    CASE how = "selecterr" ->
            Throw("ProtocolException", "select() error",
                  Append(trace, Event("selecterr", NoMsg)), logged, output, closed)
      [] how = "timeout" ->
            Throw("ProtocolException", "timeout",
                  Append(trace, Event("timeout", NoMsg)), logged, output, closed)
      [] how = "readerr" ->
            Throw("ProtocolException", "socket read error",
                  Append(trace, Event("readerr", NoMsg)), logged, output, closed + 1)

\* decodeFailure dropping the packet and waiting for the next one.
decodeFailure_Skip(d) ==
    Goto(pc, Append(trace, Event("baddecode", NoMsg)), logged, output)

\* Message::decode did not return: its exception (or the crash) ends run().
decodeFailure(d) ==
    Throw(d.kind, d.what, Append(trace, Event("baddecode", NoMsg)),
          logged, output, closed)

ReceiveFailures == {"selecterr", "timeout", "readerr"}

\* What constructing a std::string from a null pointer can end in: libstdc++
\* throws std::logic_error, which main does not catch; other libraries read
\* through the pointer.
NullStringOutcomes == {"std::logic_error", "crash"}

\* The command lines explored: optind after getopt, and the number of
\* arguments that follow the options (argc = optind + that number).
OptInds == {1, 2}
Positionals == 0..3

\* The usage test of run().
wrongUsage(argc) == ~interactive /\ argc < 3

\* run() up to its first receivePacket: options, usage, ip and port, connect,
\* password, Login.  An option argument is there only if an option is set; a
\* non-interactive run has its command in argv[optind+2] exactly when three
\* arguments follow the options.
StartWith(help, optind, npos, nullStr, connected, written) ==
    /\ pc = "start"
    /\ optind = 2 => (help \/ interactive \/ quiet)
    /\ ~interactive => (npos = 3 <=> argCmd # NullArg)
    /\ IF help \/ wrongUsage(optind + npos)
       THEN Throw("AppException", "wrong usage", trace, logged, output, closed)
       ELSE IF npos < 2
       THEN Throw(nullStr, "", trace, logged, output, closed)
       ELSE IF ~connected
       THEN Throw("SocketException", "Could not connect", trace, logged, output, closed)
       ELSE sendPacket(Login(mPassword), written, "login_recv", trace, logged, output)
    /\ UNCHANGED <<interactive, quiet, mPassword, argCmd, cmdStr, mNextSeqNum, issued, buf,
                   nCmds, nRecv, codecVars>>

Start ==
    /\ \E help \in BOOLEAN, optind \in OptInds, npos \in Positionals,
          nullStr \in NullStringOutcomes, connected \in BOOLEAN, written \in BOOLEAN :
          StartWith(help, optind, npos, nullStr, connected, written)
    /\ UNCHANGED twinVars

\* loginVerdict without the test of the result.
loginVerdict_IgnoreResult(m) ==
    IF m.mType # "MSG_LOGIN_RESP" THEN "Unexpected message received!"
    ELSE ""

\* loginVerdict with the test of the result inverted (0 taken for success).
loginVerdict_Inverted(m) ==
    IF m.mType # "MSG_LOGIN_RESP" THEN "Unexpected message received!"
    ELSE IF m.mResult # 0 THEN "Wrong RCON password!"
    ELSE ""

\* loginVerdict without the test of the message type.
loginVerdict_AnyType(m) ==
    IF m.mType = "MSG_LOGIN_RESP" /\ m.mResult = 0 THEN "Wrong RCON password!"
    ELSE ""

\* run()'s two tests of the reply to Login: the message of the exception
\* thrown, or "" when the login is accepted.
loginVerdict(m) ==
    IF m.mType # "MSG_LOGIN_RESP" THEN "Unexpected message received!"
    ELSE IF m.mResult = 0 THEN "Wrong RCON password!"
    ELSE ""

\* What one call of receivePacket can meet: a failure, or a datagram `del[1]`
\* with what Message::decode makes of it, `del[2]`.
Arrival(del) == [how |-> "packet", del |-> del]
Receives(failures, deliveries) ==
    {[how |-> h, del |-> <<>>] : h \in failures} \cup {Arrival(del) : del \in deliveries}

\* What a receive of the session explored can meet.
SessionReceives == Receives(ReceiveFailures, Deliveries)

\* The reply to Login.
LoginRecvWith(rcv, limit) ==
    /\ pc = "login_recv"
    /\ IF rcv.how # "packet"
       THEN /\ receiveFailure(rcv.how)
            /\ UNCHANGED <<nRecv, buf>>
       ELSE /\ nRecv < limit
            /\ nRecv' = nRecv + 1
            /\ LET d == rcv.del[2]
                   tr == Append(trace, Event("recv", d.msg))
               IN  /\ buf' = rcv.del[1]
                   /\ IF d.kind # "msg"
                      THEN decodeFailure(d)
                      ELSE IF loginVerdict(d.msg) # ""
                      THEN Throw("ProtocolException", loginVerdict(d.msg),
                                 tr, logged, output, closed)
                      ELSE Goto("ready", tr, logged,
                                IF interactive THEN Append(output, Banner) ELSE output)
    /\ UNCHANGED <<interactive, quiet, mPassword, argCmd, cmdStr, mNextSeqNum, issued, nCmds,
                   codecVars>>

LoginRecv ==
    /\ \E rcv \in SessionReceives : LoginRecvWith(rcv, MaxRecv)
    /\ UNCHANGED twinVars

\* getNextSeqNum on a counter wider than eight bits.
getNextSeqNum_NoWrap(n) == n + 1

\* Message::getNextSeqNum: the counter after the call (the call returns the
\* counter before it).  mNextSeqNum is a uint8_t.
getNextSeqNum(n) == (n + 1) % 256

\* One call of Message::getNextSeqNum on its own.
Allocate ==
    /\ pc = "idle" /\ cpc = "idle"
    /\ Len(issued) < MaxAllocs
    /\ issued' = Append(issued, mNextSeqNum)
    /\ mNextSeqNum' = getNextSeqNum(mNextSeqNum)
    /\ UNCHANGED <<pc, interactive, quiet, mPassword, argCmd, cmdStr, buf, trace, logged, output,
                   errKind, errMsg, exitCode, closed, nCmds, nRecv, codecVars, twinVars>>

\* isSentinel knowing "quit" only.
isSentinel_QuitOnly(str) == str = quitStr

\* The test that leaves the command loop.
isSentinel(str) == str = quitStr \/ str = exitStr

\* The head of the command loop: the next command string, the sentinel test,
\* Command cmd(cmdStr), sendPacket(&cmd).  Assigning the null pointer
\* argv[argc] to cmdStr reads through it.  `words` is what std::cin may
\* deliver, `limit` the number of commands explored.
ReadCommandWith(word, written, limit) ==
    /\ pc = "ready"
    /\ ~interactive => word = argCmd
    /\ LET out == IF interactive THEN Append(output, Prompt) ELSE output
       IN  IF word = NullArg
           THEN /\ Throw("crash", "", trace, logged, out, closed)
                /\ UNCHANGED <<cmdStr, mNextSeqNum, issued, nCmds>>
           ELSE IF isSentinel(word)
           THEN /\ cmdStr' = word
                /\ Return(trace, logged, out)
                /\ UNCHANGED <<mNextSeqNum, issued, nCmds>>
           ELSE /\ cmdStr' = word
                /\ nCmds < limit
                /\ nCmds' = nCmds + 1
                /\ issued' = Append(issued, mNextSeqNum)
                /\ mNextSeqNum' = getNextSeqNum(mNextSeqNum)
                /\ sendPacket(Command(word, mNextSeqNum), written, "await",
                              trace, logged, out)
    /\ UNCHANGED <<interactive, quiet, mPassword, argCmd, buf, nRecv, codecVars>>

ReadCommandOf(words, limit) ==
    /\ \E word \in (IF interactive THEN words ELSE {argCmd}), written \in BOOLEAN :
          ReadCommandWith(word, written, limit)
    /\ UNCHANGED twinVars

ReadCommand == ReadCommandOf(CinWords, MaxCmds)

\* endCycle going back to the head of the command loop in either mode.
endCycle_AlwaysLoop(tr, lg, out) == Goto("ready", tr, lg, out)

\* The end of the inner loop: back to the prompt, or closeConnection().
endCycle(tr, lg, out) ==
    IF interactive THEN Goto("ready", tr, lg, out) ELSE Return(tr, lg, out)

\* loopAgain leaving the loop on a partial response.
loopAgain_NotOnPartial(msgType) == msgType \in {"MSG_SRV_MSG"}

\* loopAgain waiting on until a CommandResponse has arrived.
loopAgain_UntilResponse(msgType) == msgType # "MSG_CMD_RESP"

\* loopAgain leaving the loop after a server message and its acknowledgment.
loopAgain_NotOnServerMsg(msgType) == msgType \in {"MSG_CMD_PART_RESP"}

\* The condition of the inner loop.
loopAgain(msgType) == msgType \in {"MSG_CMD_PART_RESP", "MSG_SRV_MSG"}

\* afterSwitch dropping a CommandResponse whose sequence number is not that of
\* the Command sent last, and waiting on.
afterSwitch_Correlating(msgType, tr, lg, out) ==
    IF msgType = "MSG_CMD_RESP" /\ tr[Len(tr)].msg.mSeqNum # (mNextSeqNum + 255) % 256
    THEN Goto("await", tr, logged, output)
    ELSE IF loopAgain(msgType) THEN Goto("await", tr, lg, out)
    ELSE endCycle(tr, lg, out)

\* afterSwitch ending the cycle on the partial response whose index is the
\* last one.
afterSwitch_LastPartEnds(msgType, tr, lg, out) ==
    IF msgType = "MSG_CMD_PART_RESP"
       /\ tr[Len(tr)].msg.mPartIdx = tr[Len(tr)].msg.mNofParts - 1
    THEN endCycle(tr, lg, out)
    ELSE IF loopAgain(msgType) THEN Goto("await", tr, lg, out)
    ELSE endCycle(tr, lg, out)

\* The bottom of the inner loop.
afterSwitch(msgType, tr, lg, out) ==
    IF loopAgain(msgType) THEN Goto("await", tr, lg, out) ELSE endCycle(tr, lg, out)

\* ackFor without the call of setSeqNum.
ackFor_SeqNotSet(m) == ServerAck(0)

\* The acknowledgment of a server message: ack.setSeqNum(srvMsg->getSeqNum()).
ackFor(m) == ServerAck(m.mSeqNum)

\* The switch of the inner loop on a decoded message, then the loop condition.
dispatch(m, written, tr) ==
    CASE m.mType = "MSG_CMD_RESP" ->
            afterSwitch(m.mType, tr, Append(logged, Chunk(m.mMsg)),
                        log(output, Chunk(m.mMsg)))
      [] m.mType = "MSG_CMD_PART_RESP" ->
            afterSwitch(m.mType, tr, Append(logged, Chunk(m.mMsg)),
                        log(output, Chunk(m.mMsg)))
      [] m.mType = "MSG_SRV_MSG" ->
            IF written
            THEN afterSwitch(m.mType, Append(tr, Event("send", ackFor(m))),
                             Append(logged, Chunk(m.mMsg)), log(output, Chunk(m.mMsg)))
            ELSE Throw("ProtocolException", "partial/failed write",
                       Append(tr, Event("writefail", ackFor(m))),
                       Append(logged, Chunk(m.mMsg)), log(output, Chunk(m.mMsg)), closed)
      [] OTHER ->
            afterSwitch(m.mType, tr, logged, output)

\* ServerAck's default constructor drawing a sequence number, as Command's
\* constructors do.
ServerAck_ctor_Allocating(n) == (n + 1) % 256

\* ServerAck::ServerAck(): the counter after `ServerAck ack;`.
ServerAck_ctor(n) == n

\* One pass of the inner loop: ServerAck ack, receivePacket and the switch.
\* `rcv` is what the receive meets, `limit` the number of packets explored.
CycleRecvWith(rcv, written, limit) ==
    /\ pc = "await"
    /\ mNextSeqNum' = ServerAck_ctor(mNextSeqNum)
    /\ IF rcv.how # "packet"
       THEN /\ receiveFailure(rcv.how)
            /\ UNCHANGED <<nRecv, buf>>
       ELSE /\ nRecv < limit
            /\ nRecv' = nRecv + 1
            /\ LET d == rcv.del[2]
               IN  /\ buf' = rcv.del[1]
                   /\ IF d.kind # "msg"
                      THEN decodeFailure(d)
                      ELSE dispatch(d.msg, written, Append(trace, Event("recv", d.msg)))
    /\ UNCHANGED <<interactive, quiet, mPassword, argCmd, cmdStr, issued, nCmds, codecVars>>

CycleRecvOf(receives, limit) ==
    /\ pc = "await"
    /\ \E rcv \in receives, written \in BOOLEAN :
          CycleRecvWith(rcv, written, limit)
    /\ UNCHANGED twinVars

CycleRecv == CycleRecvOf(SessionReceives, MaxRecv)

\* The receive of a command cycle when no packet arrives: select() returns 0
\* after its 500 ms and receivePacket throws.
CycleTimeout == CycleRecvOf(Receives({"timeout"}, {}), 0)

\* A long interactive session against a server that answers every command
\* with one server message and then the CommandResponse.
DeliveriesOf(p) == {<<p, d>> : d \in decode(p)}
NoticeDelivery == DeliveriesOf(encode(ServerMessage(5, <<67>>)))
ReplyDelivery == DeliveriesOf(encode(CommandResponse(0, <<65>>)))

LongReadCommand == ReadCommandOf({<<115>>, quitStr}, MaxLongCmds)

LongCycleRecv ==
    CycleRecvOf(Receives({"timeout"},
                         IF trace[Len(trace)].msg.mType = "MSG_CMD"
                         THEN NoticeDelivery ELSE ReplyDelivery),
                2 * MaxLongCmds + 1)

(***************************************************************************)
(* Two runs of the program on the same inputs, one after the other: the    *)
(* first without quiet mode, the second with it.  The first run's inputs   *)
(* (what the command line holds behind the options, what connect(),        *)
(* write(), select(), read() and std::cin deliver) are written to          *)
(* `script`; the second run takes each of its inputs from there.  optind   *)
(* is not among them: the option -q is itself an argument.                 *)
(***************************************************************************)
\* No run has ended yet.
NoRun == [done |-> FALSE]

NoReceive == [how |-> "none", del |-> <<>>]

\* The inputs of one step of run().
Input(act, args, rcv, word, written) ==
    [act |-> act, args |-> args, rcv |-> rcv, word |-> word, written |-> written]

\* The step has inputs `in`: the first run records them, the second run can
\* take the step only if they are the next ones recorded.
Take(in) ==
    IF first.done
    THEN /\ script # <<>>
         /\ Head(script) = in
         /\ script' = Tail(script)
         /\ UNCHANGED first
    ELSE /\ script' = Append(script, in)
         /\ UNCHANGED first

\* What the server sends in the paired runs, and what std::cin delivers.
TwinPackets ==
    {encode(LoginResponse(1)), encode(LoginResponse(0)),
     encode(CommandResponse(0, <<65>>)),
     encode(CommandPartialResponse(2, 0, <<65>>)),
     encode(ServerMessage(5, <<67>>)), <<66, 69>>}
TwinReceives == Receives(ReceiveFailures, UNION {DeliveriesOf(p) : p \in TwinPackets})
TwinWords == {<<115>>, quitStr}

TwinStart ==
    \E help \in BOOLEAN, optind \in OptInds, npos \in Positionals,
       nullStr \in NullStringOutcomes, connected \in BOOLEAN, written \in BOOLEAN :
       /\ StartWith(help, optind, npos, nullStr, connected, written)
       /\ Take(Input("Start", <<help, npos, nullStr, connected>>, NoReceive, <<>>, written))

TwinLoginRecv ==
    \E rcv \in TwinReceives :
       /\ LoginRecvWith(rcv, MaxRecv)
       /\ Take(Input("LoginRecv", <<>>, rcv, <<>>, FALSE))

TwinReadCommand ==
    \E word \in TwinWords \cup {argCmd}, written \in BOOLEAN :
       /\ interactive => word \in TwinWords
       /\ ReadCommandWith(word, written, MaxCmds)
       /\ Take(Input("ReadCommand", <<>>, NoReceive, word, written))

TwinCycleRecv ==
    \E rcv \in TwinReceives, written \in BOOLEAN :
       /\ CycleRecvWith(rcv, written, MaxRecv)
       /\ Take(Input("CycleRecv", <<>>, rcv, <<>>, written))

\* The first run has ended: the program is started again with -q, on the
\* same configuration, arguments and inputs.
Rerun ==
    /\ pc = "exited" /\ ~first.done
    /\ first' = [done |-> TRUE, trace |-> trace, logged |-> logged, output |-> output,
                 errKind |-> errKind, errMsg |-> errMsg, exitCode |-> exitCode,
                 closed |-> closed, mNextSeqNum |-> mNextSeqNum]
    /\ quiet' = TRUE
    /\ pc' = "start"
    /\ cmdStr' = <<>> /\ mNextSeqNum' = 0 /\ issued' = <<>>
    /\ buf' = <<>> /\ trace' = <<>> /\ logged' = <<>> /\ output' = <<>>
    /\ errKind' = "none" /\ errMsg' = "" /\ exitCode' = -1
    /\ closed' = 0 /\ nCmds' = 0 /\ nRecv' = 0
    /\ UNCHANGED <<interactive, mPassword, argCmd, script, codecVars>>

(***************************************************************************)
(* Specifications.                                                         *)
(***************************************************************************)

SessionIdle ==
    /\ pc = "idle" /\ interactive = FALSE /\ quiet = FALSE /\ mPassword = <<>>
    /\ argCmd = <<>> /\ cmdStr = <<>> /\ mNextSeqNum = 0 /\ issued = <<>>
    /\ buf = <<>> /\ trace = <<>> /\ logged = <<>>
    /\ output = <<>> /\ errKind = "none" /\ errMsg = "" /\ exitCode = -1
    /\ closed = 0 /\ nCmds = 0 /\ nRecv = 0
    /\ script = <<>> /\ first = NoRun

CodecIdle ==
    /\ cpc = "idle" /\ cmsg = NoMsg /\ cbuf = <<>> /\ ctamper = "none"
    /\ cout = NoOutcome

\* The session: a process started with some options, password and command.
Init ==
    /\ CodecIdle
    /\ pc = "start"
    /\ interactive \in BOOLEAN
    /\ quiet \in BOOLEAN
    /\ mPassword \in Passwords
    /\ argCmd \in (IF interactive THEN {<<>>} ELSE ArgCmds)
    /\ cmdStr = <<>>
    /\ mNextSeqNum = 0 /\ issued = <<>>
    /\ buf = <<>> /\ trace = <<>> /\ logged = <<>> /\ output = <<>>
    /\ errKind = "none" /\ errMsg = "" /\ exitCode = -1
    /\ closed = 0 /\ nCmds = 0 /\ nRecv = 0
    /\ script = <<>> /\ first = NoRun

Next == Start \/ LoginRecv \/ ReadCommand \/ CycleRecv

Spec == Init /\ [][Next]_vars

\* The session with the clock running: a wait in a command cycle that nothing
\* else ends is ended by the timeout of select().  The server sends the
\* packets of the paired runs.
LiveReadCommand == ReadCommandOf(TwinWords, MaxCmds)

LiveCycleRecv == CycleRecvOf(TwinReceives, MaxRecv)

LiveNext == Start \/ LoginRecv \/ LiveReadCommand \/ LiveCycleRecv

LiveSpec == Init /\ [][LiveNext]_vars /\ WF_vars(CycleTimeout)

\* The paired runs.
TwinInit == Init /\ ~quiet

TwinNext == TwinStart \/ TwinLoginRecv \/ TwinReadCommand \/ TwinCycleRecv \/ Rerun

TwinSpec == TwinInit /\ [][TwinNext]_vars

\* The long session: interactive, one configuration.
LongInit == Init /\ interactive /\ ~quiet /\ mPassword = <<>>

LongNext == Start \/ LoginRecv \/ LongReadCommand \/ LongCycleRecv

LongSpec == LongInit /\ [][LongNext]_vars

\* The codec: some message about to be encoded.
CodecInit ==
    /\ SessionIdle
    /\ cpc = "new"
    /\ cmsg \in Messages
    /\ cbuf = <<>>
    /\ ctamper = "none"
    /\ cout = NoOutcome

CodecNext ==
    CodecEncode \/ CodecCorrupt \/ CodecTruncate \/ CodecRecalc \/ CodecDecode

CodecSpec == CodecInit /\ [][CodecNext]_vars

\* sendPacket alone: one message is encoded into the buffer and written.
SendInit ==
    /\ SessionIdle
    /\ cpc = "new"
    /\ cmsg \in SendMessages
    /\ cbuf = <<>>
    /\ ctamper = "none"
    /\ cout = NoOutcome

SendNext == CodecEncode \/ SendWrite

SendSpec == SendInit /\ [][SendNext]_vars

\* The codec harness with single-bit damage only.
FlipNext == CodecEncode \/ CodecFlipBit \/ CodecDecode

FlipSpec == CodecInit /\ [][FlipNext]_vars

\* The sequence-number allocator alone, from process start.
SeqInit == CodecIdle /\ SessionIdle

SeqNext == Allocate

SeqSpec == SeqInit /\ [][SeqNext]_vars

(***************************************************************************)
(* Properties of the session, checked under Spec.                          *)
(***************************************************************************)
Sent(i) == trace[i].ev = "send"
Attempted(i) == trace[i].ev \in {"send", "writefail"}
Received(i, msgType) == trace[i].ev = "recv" /\ trace[i].msg.mType = msgType

\* The reply to Login was decoded to a message of class msgType.
LoginReplyIs(msgType) == Len(trace) >= 2 /\ Received(2, msgType)

C4_LoginUnexpected ==
    (\E t \in {"MSG_CMD_RESP", "MSG_CMD_PART_RESP", "MSG_SRV_MSG"} : LoginReplyIs(t)) =>
        /\ pc = "exited" /\ exitCode = 1
        /\ errKind = "ProtocolException" /\ errMsg = "Unexpected message received!"
        /\ Len(trace) = 2
        /\ logged = <<>>

\* A ServerMessage arrived as the reply to Login.
C4_Witness == LoginReplyIs("MSG_SRV_MSG") /\ pc = "exited"

\* C5: after a ServerMessage with sequence number N is received, the next
\* thing on the transport, if any, is the ServerAck with sequence number N
\* (sent, or its write failing): no other packet and no receive comes
\* between.  In a command cycle the ack always follows.
C5_ServerAck ==
    \A i \in DOMAIN trace :
        Received(i, "MSG_SRV_MSG") =>
            /\ i < Len(trace) =>
                  /\ Attempted(i + 1)
                  /\ trace[i + 1].msg = ServerAck(trace[i].msg.mSeqNum)
            /\ i > 2 => i < Len(trace)

\* A ServerMessage with a non-zero sequence number was received in a command
\* cycle and its ack was sent.
C5_Witness ==
    \E i \in DOMAIN trace :
        /\ i > 2 /\ i < Len(trace)
        /\ Received(i, "MSG_SRV_MSG") /\ trace[i].msg.mSeqNum # 0
        /\ Sent(i + 1)

\* The texts received in command cycles, in order of arrival, each with the
\* line break the session appends.
isCycleText(e) ==
    e.ev = "recv" /\ e.msg.mType \in {"MSG_CMD_RESP", "MSG_CMD_PART_RESP", "MSG_SRV_MSG"}
ArrivedTexts ==
    LET t == SelectSeq(SubSeq(trace, 3, Len(trace)), isCycleText)
    IN  [i \in 1..Len(t) |-> t[i].msg.mMsg \o <<10>>]

isLogLine(o) == o.kind = "log"
PrintedTexts ==
    LET t == SelectSeq(output, isLogLine)
    IN  [i \in 1..Len(t) |-> t[i].text]

\* Index of the last Command sent, 0 when none was.
LastCommand ==
    LET S == {i \in DOMAIN trace : Attempted(i) /\ trace[i].msg.mType = "MSG_CMD"}
    IN  IF S = {} THEN 0 ELSE CHOOSE i \in S : \A j \in S : j <= i

CycleOver == pc = "ready" \/ (pc = "exited" /\ exitCode = 0)

\* C6: the texts of the messages received in command cycles are handed to
\* RconApp::log one chunk each, in order of arrival (and printed so unless the
\* run is quiet); a cycle in which only partial responses have arrived is not
\* over, and a finished cycle's last message is a CommandResponse (or a
\* LoginResponse).
C6_Streaming ==
    /\ logged = ArrivedTexts
    /\ ~quiet => PrintedTexts = logged
    /\ quiet => PrintedTexts = <<>>
    /\ LastCommand > 0 =>
          /\ (\A i \in (LastCommand + 1)..Len(trace) : Received(i, "MSG_CMD_PART_RESP"))
                => ~CycleOver
          /\ CycleOver =>
                \/ Received(Len(trace), "MSG_CMD_RESP")
                \/ Received(Len(trace), "MSG_LOGIN_RESP")

\* A cycle ended after a partial response with index 1 and then a
\* CommandResponse, and both texts were printed.
C6_Witness ==
    /\ ~quiet /\ CycleOver /\ Len(trace) >= 5
    /\ Received(Len(trace) - 1, "MSG_CMD_PART_RESP")
    /\ trace[Len(trace) - 1].msg.mPartIdx = 1
    /\ Received(Len(trace), "MSG_CMD_RESP")
    /\ Len(PrintedTexts) = 2

\* C7: a receive that times out ends the session with ProtocolException
\* "timeout"; nothing is sent or received after it.
C7_Timeout ==
    \A i \in DOMAIN trace :
        trace[i].ev = "timeout" =>
            /\ i = Len(trace)
            /\ pc = "exited" /\ exitCode = 1
            /\ errKind = "ProtocolException" /\ errMsg = "timeout"

\* The wait after a ServerAck timed out.
C7_Witness ==
    /\ Len(trace) >= 2
    /\ trace[Len(trace)].ev = "timeout"
    /\ Sent(Len(trace) - 1) /\ trace[Len(trace) - 1].msg.mType = "MSG_SRV_ACK"

\* C16: a step that reads "quit" or "exit" at the head of the command loop
\* ends the session cleanly: no packet is sent or received in it, no Command
\* is built, no sequence number is consumed, and the connection is closed.
C16_Sentinel ==
    [][(pc = "ready" /\ pc' # "ready" /\ cmdStr' \in {quitStr, exitStr}) =>
          /\ pc' = "exited" /\ errKind' = "none" /\ exitCode' = 0
          /\ trace' = trace
          /\ mNextSeqNum' = mNextSeqNum /\ issued' = issued
          /\ closed' = closed + 1]_vars

\* An interactive session has ended on "exit" after one command cycle.
C16_Witness ==
    /\ pc = "exited" /\ interactive /\ cmdStr = exitStr
    /\ Len(issued) = 1 /\ mNextSeqNum = 1
    /\ trace[Len(trace)].ev = "recv"
    /\ closed = 1

\* Positions of the trace where a Command was handed to write().
CommandsAttempted ==
    {i \in DOMAIN trace : Attempted(i) /\ trace[i].msg.mType = "MSG_CMD"}

\* The last thing on the transport was the message that ended a command cycle.
LastCycleEnded ==
    /\ trace[Len(trace)].ev = "recv"
    /\ trace[Len(trace)].msg.mType \notin {"MSG_CMD_PART_RESP", "MSG_SRV_MSG"}
    /\ LastCommand > 2 /\ Sent(LastCommand)

CleanExit == pc = "exited" /\ errKind = "none"

\* What holds of the transport at any time: one close at most, and only as
\* the last thing the session does.
ClosedOnlyAtEnd ==
    /\ closed \in {0, 1}
    /\ closed = 1 => pc = "exited"
    /\ CleanExit => closed = 1

\* C17 (as claimed): a non-interactive session that ended cleanly has sent
\* exactly one Command and ended when that command's cycle completed; an
\* interactive one ended when the sentinel was read; the transport was closed
\* exactly once, as the last thing done.
C17_CleanTermination ==
    /\ ClosedOnlyAtEnd
    /\ (CleanExit /\ ~interactive) =>
          (Cardinality(CommandsAttempted) = 1 /\ LastCycleEnded)
    /\ (CleanExit /\ interactive) => cmdStr \in {quitStr, exitStr}

\* What C17_CleanExit requires of a state.
CleanExitState ==
    /\ ClosedOnlyAtEnd
    /\ ~interactive => Cardinality(CommandsAttempted) <= 1
    /\ (CleanExit /\ ~interactive) =>
          IF argCmd \in {quitStr, exitStr}
          THEN CommandsAttempted = {} /\ Received(Len(trace), "MSG_LOGIN_RESP")
          ELSE Cardinality(CommandsAttempted) = 1 /\ LastCycleEnded
    /\ (CleanExit /\ interactive) => cmdStr \in {quitStr, exitStr}

\* C17 (amended): a non-interactive session sends one Command at most; one
\* that ended cleanly has sent exactly one and ended when its cycle completed,
\* unless its command argument is itself "quit" or "exit", in which case it
\* sent none and ended right after the login; an interactive one ended when
\* the sentinel was read; the transport was closed exactly once, by the step
\* that ended the session, and no step follows that one.
C17_CleanExit ==
    [][/\ CleanExitState'
       /\ pc # "exited"
       /\ closed' # closed => pc' = "exited"]_vars

\* A non-interactive run has ended cleanly after the one cycle of its command.
C17_Witness ==
    /\ CleanExit /\ ~interactive /\ argCmd = <<115>>
    /\ Cardinality(CommandsAttempted) = 1 /\ LastCycleEnded
    /\ closed = 1

(***************************************************************************)
(* Properties of the codec, checked under CodecSpec.                       *)
(***************************************************************************)
\* The packet passes every test Message::decode makes before it builds a
\* message: length, magic, checksum, marker, type.
HeaderValid(buffer) ==
    /\ Len(buffer) >= 8
    /\ At(buffer, 0) = 66 /\ At(buffer, 1) = 69
    /\ StoreLE(crc32(From(buffer, 6))) = SubSeq(buffer, 3, 6)
    /\ At(buffer, 6) = 255
    /\ At(buffer, 7) \in {0, 1, 2}

\* C1 (as claimed): decoding the bytes a message was encoded to, unmodified,
\* returns a message of the same class with the same fields.
C1_RoundTrip ==
    (cpc = "decoded" /\ ctamper = "none") => cout = Decoded(cmsg)

\* C8: decode returns a message only if the packet has at least 8 bytes, the
\* magic 42 45, a checksum field equal to the CRC-32 of bytes[6..length), the
\* marker FF and a type byte in {0,1,2}; when any of these fails, decode throws
\* ProtocolException and returns no message.
C8_DecodeValidation ==
    cpc = "decoded" =>
        /\ cout.kind = "msg" => HeaderValid(cbuf)
        /\ ~HeaderValid(cbuf) => (cout.kind = "ProtocolException" /\ cout.msg = NoMsg)

\* A packet whose marker was damaged and whose checksum was recomputed over
\* the damaged bytes has been refused.
C8_Witness ==
    /\ cpc = "decoded" /\ ctamper = "corrupt+crc"
    /\ Len(cbuf) >= 8 /\ At(cbuf, 6) # 255
    /\ StoreLE(crc32(From(cbuf, 6))) = SubSeq(cbuf, 3, 6)
    /\ cout.kind = "ProtocolException"

\* C9: a valid packet of type 0 decodes to LoginResponse(result = byte 8)
\* exactly when it is 9 bytes long, and to a CommandPartialResponse only when
\* it is longer than 9 bytes, then with totalParts = byte 8 and partIndex =
\* byte 9.
C9_TypeZeroByLength ==
    (cpc = "decoded" /\ HeaderValid(cbuf) /\ At(cbuf, 7) = 0) =>
        /\ (cout.kind = "msg" /\ cout.msg.mType = "MSG_LOGIN_RESP") <=> Len(cbuf) = 9
        /\ Len(cbuf) = 9 => cout = Decoded(LoginResponse(At(cbuf, 8)))
        /\ (cout.kind = "msg" /\ cout.msg.mType = "MSG_CMD_PART_RESP") =>
              /\ Len(cbuf) > 9
              /\ cout.msg.mNofParts = At(cbuf, 8)
              /\ cout.msg.mPartIdx = At(cbuf, 9)
        /\ cout.kind = "msg" => cout.msg.mType \in {"MSG_LOGIN_RESP", "MSG_CMD_PART_RESP"}

\* A type-0 packet longer than 9 bytes has been decoded to a partial response.
C9_Witness ==
    /\ cpc = "decoded" /\ HeaderValid(cbuf) /\ At(cbuf, 7) = 0 /\ Len(cbuf) > 9
    /\ cout.kind = "msg" /\ cout.msg.mType = "MSG_CMD_PART_RESP"

\* C10 (as claimed): the text decoded from a valid packet is exactly
\* bytes[9..length) for types 1 and 2 and bytes[10..length) for type 0,
\* whatever the byte values, 0x00 included.
C10_TextByByteCount ==
    (cpc = "decoded" /\ HeaderValid(cbuf) /\ cout.kind = "msg") =>
        /\ (At(cbuf, 7) \in {1, 2} /\ Len(cbuf) >= 9) => cout.msg.mMsg = From(cbuf, 9)
        /\ (At(cbuf, 7) = 0 /\ Len(cbuf) > 9) => cout.msg.mMsg = From(cbuf, 10)

\* The type byte and the payload of each class, by the table of the wire
\* format.
TypeByteOf(m) ==
    CASE m.mType \in {"MSG_LOGIN", "MSG_LOGIN_RESP", "MSG_CMD_PART_RESP"} -> 0
      [] m.mType \in {"MSG_CMD", "MSG_CMD_RESP"} -> 1
      [] m.mType \in {"MSG_SRV_MSG", "MSG_SRV_ACK"} -> 2

PayloadOf(m) ==
    CASE m.mType = "MSG_LOGIN" -> m.mPassword
      [] m.mType = "MSG_LOGIN_RESP" -> <<m.mResult>>
      [] m.mType = "MSG_SRV_MSG" -> <<m.mSeqNum>> \o m.mMsg
      [] m.mType = "MSG_SRV_ACK" -> <<m.mSeqNum>>
      [] m.mType = "MSG_CMD" -> <<m.mSeqNum>> \o m.mCmdStr
      [] m.mType = "MSG_CMD_RESP" -> <<m.mSeqNum>> \o m.mMsg
      [] m.mType = "MSG_CMD_PART_RESP" -> <<m.mNofParts, m.mPartIdx>> \o m.mMsg

LengthOf(m) ==
    CASE m.mType = "MSG_LOGIN" -> 8 + Len(m.mPassword)
      [] m.mType \in {"MSG_LOGIN_RESP", "MSG_SRV_ACK"} -> 9
      [] m.mType = "MSG_SRV_MSG" -> 9 + Len(m.mMsg)
      [] m.mType = "MSG_CMD" -> 9 + Len(m.mCmdStr)
      [] m.mType = "MSG_CMD_RESP" -> 9 + Len(m.mMsg)
      [] m.mType = "MSG_CMD_PART_RESP" -> 10 + Len(m.mMsg)

\* C11: every encode writes 42 45 at offsets 0-1, FF at offset 6, the type
\* byte of the class at offset 7, then the payload of the class, and returns
\* the exact packet length; encode(Login("secret")) is
\* 42 45 C9 90 09 AE FF 00 73 65 63 72 65 74.
C11_EncodeLayout ==
    (cpc = "encoded" /\ ctamper = "none") =>
        /\ At(cbuf, 0) = 66 /\ At(cbuf, 1) = 69
        /\ At(cbuf, 6) = 255
        /\ At(cbuf, 7) = TypeByteOf(cmsg)
        /\ From(cbuf, 8) = PayloadOf(cmsg)
        /\ Len(cbuf) = LengthOf(cmsg)
        /\ cmsg = Login(secretStr) =>
              cbuf = <<66, 69, 201, 144, 9, 174, 255, 0, 115, 101, 99, 114, 101, 116>>

\* A partial response with a text has been encoded: ten bytes of header and
\* fields, then the text.
C11_Witness ==
    /\ cpc = "encoded" /\ ctamper = "none"
    /\ cmsg.mType = "MSG_CMD_PART_RESP" /\ Len(cmsg.mMsg) = 2
    /\ Len(cbuf) = 12 /\ At(cbuf, 9) = cmsg.mPartIdx

\* C12: in every packet an encode produced, bytes 2-5 hold the CRC-32 of
\* bytes[6..length), least-significant byte first, and decode of the
\* unmodified packet does not fail the checksum test.
C12_ChecksumPlacement ==
    /\ (cpc \in {"encoded", "decoded"} /\ ctamper = "none") =>
          LET crc == crc32(From(cbuf, 6))
          IN  /\ At(cbuf, 2) = crc[2] % 256
              /\ At(cbuf, 3) = crc[2] \div 256
              /\ At(cbuf, 4) = crc[1] % 256
              /\ At(cbuf, 5) = crc[1] \div 256
    /\ (cpc = "decoded" /\ ctamper = "none") => cout.what # "CRC32 check failed"

\* The packet of Login("secret"), checksum AE0990C9 stored as C9 90 09 AE, has
\* passed decode's checksum test.
C12_Witness ==
    /\ cpc = "decoded" /\ ctamper = "none" /\ cmsg = Login(secretStr)
    /\ SubSeq(cbuf, 3, 6) = <<201, 144, 9, 174>>
    /\ cout.kind = "msg"

\* C14: a packet of 8 bytes or more whose byte 0 is not 42, whose byte 1 is
\* not 45 or whose byte 6 is not FF makes decode throw ProtocolException,
\* whether or not its checksum field matches the CRC-32 of bytes[6..length).
C14_MagicMarker ==
    (/\ cpc = "decoded" /\ Len(cbuf) >= 8
     /\ (At(cbuf, 0) # 66 \/ At(cbuf, 1) # 69 \/ At(cbuf, 6) # 255)) =>
        /\ cout.kind = "ProtocolException"
        /\ cout.msg = NoMsg

\* A packet whose second key byte was damaged, with a checksum field that
\* matches its bytes, has been refused.
C14_Witness ==
    /\ cpc = "decoded" /\ ctamper = "corrupt+crc"
    /\ Len(cbuf) >= 8 /\ At(cbuf, 1) # 69
    /\ LoadLE(cbuf) = crc32(From(cbuf, 6))
    /\ cout.kind = "ProtocolException"

\* C28 (as claimed): every message sendPacket encodes (a Login, a Command, a
\* ServerAck) has at most BUF_SIZE bytes, so encode stores nothing at an
\* offset of BUF_SIZE or more.
C28_SendBufferBound ==
    cpc \in {"encoded", "written"} => Len(cbuf) <= BUF_SIZE

\* C27 (as claimed): for a packet of 8 bytes or more that passes the magic,
\* checksum and marker tests, decode reads no byte beyond the packet and
\* computes no negative text length: it ends in a message or a
\* ProtocolException, a message with a field at offset 8 (or 9) comes from a
\* packet that has that byte, and its text is no longer than the bytes that
\* follow the fields.
C27_DecodeInBounds ==
    (/\ cpc = "decoded" /\ Len(cbuf) >= 8
     /\ At(cbuf, 0) = 66 /\ At(cbuf, 1) = 69
     /\ LoadLE(cbuf) = crc32(From(cbuf, 6))
     /\ At(cbuf, 6) = 255) =>
        /\ cout.kind \in {"msg", "ProtocolException"}
        /\ cout.kind = "msg" =>
              /\ Len(cbuf) >= 9
              /\ cout.msg.mType = "MSG_CMD_PART_RESP" => Len(cbuf) >= 10
              /\ cout.msg.mType \in {"MSG_CMD_RESP", "MSG_SRV_MSG"} =>
                    Len(cout.msg.mMsg) <= Len(cbuf) - 9

(***************************************************************************)
(* Checked under FlipSpec.                                                 *)
(***************************************************************************)
\* C13: when a single bit at an offset >= 6 of an encoded packet has been
\* inverted, decode throws the ProtocolException of the checksum test and
\* returns no message.
C13_ChecksumDetection ==
    (cpc = "decoded" /\ ctamper = "bitflip") =>
        /\ cout.kind = "ProtocolException"
        /\ cout.what = "CRC32 check failed"
        /\ cout.msg = NoMsg

\* A packet whose marker lost one bit has been refused by the checksum test,
\* which precedes the test of the marker.
C13_Witness ==
    /\ cpc = "decoded" /\ ctamper = "bitflip"
    /\ At(cbuf, 6) = 127
    /\ cout.what = "CRC32 check failed"

(***************************************************************************)
(* Checked under SeqSpec.                                                  *)
(***************************************************************************)
\* C15: getNextSeqNum returns the counter and then increments it modulo 256:
\* from process start the first 256 calls return 0, 1, ..., 255 in order and
\* the 257th returns 0 again; the counter stays in 0..255 and continues from
\* the last value returned, never from a reset.
C15_SequenceAllocator ==
    /\ mNextSeqNum \in 0..255
    /\ \A k \in DOMAIN issued :
          /\ issued[k] \in 0..255
          /\ k <= 256 => issued[k] = k - 1
          /\ k = 257 => issued[k] = 0
          /\ k > 1 => issued[k] = IF issued[k - 1] = 255 THEN 0 ELSE issued[k - 1] + 1
    /\ issued # <<>> =>
          mNextSeqNum = IF issued[Len(issued)] = 255 THEN 0 ELSE issued[Len(issued)] + 1

\* The 257th call has returned 0, right after the 256th returned 255.
C15_Witness ==
    /\ Len(issued) = 257
    /\ issued[256] = 255 /\ issued[257] = 0
    /\ mNextSeqNum = 1

(***************************************************************************)
(* Properties of the session's handling of failures, checked under Spec.   *)
(***************************************************************************)
\* The messages of the exceptions Message::decode throws.
DecodeErrors ==
    {"Empty packet received!", "Key bytes 'B','E' were not matched in packet header!",
     "CRC32 check failed", "Unexpected byte received at position 6!",
     "Unknown message type received!"}

\* The datagrams that fail one of the tests of Message::decode.
InvalidPackets == {p \in RecvPackets : ~HeaderValid(p)}

\* C18: when the packet just received is too short, has a bad magic, a
\* checksum mismatch, a bad marker or an unknown type, the session has ended
\* in that step with a ProtocolException of Message::decode; a failed decode
\* is the last thing in the transport history: no ServerAck or Command is
\* sent and nothing is received after it, and the session is not back at the
\* head of the command loop.
C18_DecodeFailureFatal ==
    /\ (nRecv > 0 /\ buf \in InvalidPackets) =>
          /\ pc = "exited"
          /\ errKind = "ProtocolException" /\ errMsg \in DecodeErrors
          /\ exitCode = 1
          /\ trace[Len(trace)].ev = "baddecode"
    /\ \A i \in DOMAIN trace :
          trace[i].ev = "baddecode" =>
              (i = Len(trace) /\ pc = "exited" /\ errKind # "none")

\* A packet of unknown type, received in a command cycle, has ended the
\* session.
C18_Witness ==
    /\ pc = "exited" /\ Len(issued) = 1
    /\ Len(buf) >= 8 /\ At(buf, 7) = 3
    /\ trace[Len(trace)].ev = "baddecode"
    /\ Sent(Len(trace) - 1) /\ trace[Len(trace) - 1].msg.mType = "MSG_CMD"
    /\ errMsg = "Unknown message type received!"

\* C19 (as claimed): after a failed or partial write, or a failed select() or
\* read(), the session has ended with an error whose kind is not that of a
\* protocol error (nor of the timeout, a ProtocolException too), and nothing
\* was sent after the failure.
C19_TransportErrorKind ==
    (trace # <<>> /\ trace[Len(trace)].ev \in {"writefail", "selecterr", "readerr"}) =>
        /\ pc = "exited"
        /\ errKind \notin {"none", "ProtocolException"}

\* The login was accepted, and no command cycle is left open.
LoginAccepted ==
    Len(trace) >= 2 /\ Received(2, "MSG_LOGIN_RESP") /\ trace[2].msg.mResult # 0

AllCyclesEnded == CommandsAttempted = {} \/ LastCycleEnded

\* C20 (as claimed): a process that has ended has exit code 0 or 1: 0 exactly
\* when the login was accepted, every command cycle ended and the connection
\* was closed, and 1 after every usage error and every failure.
C20_ExitCode ==
    pc = "exited" =>
        /\ exitCode = 0 <=> (LoginAccepted /\ AllCyclesEnded /\ closed = 1 /\ errKind = "none")
        /\ exitCode # 0 => exitCode = 1

(***************************************************************************)
(* Properties of the command cycle, checked under Spec.                    *)
(***************************************************************************)
\* The transport operation recorded at position i is a receive: a packet, a
\* packet that did not decode, a timeout, or a failure of select() or read().
ReceiveAt(i) == trace[i].ev \in {"recv", "baddecode", "timeout", "selecterr", "readerr"}

\* A message that ends a command cycle was received at position i.
CycleEndAt(i) ==
    trace[i].ev = "recv" /\ trace[i].msg.mType \notin {"MSG_CMD_PART_RESP", "MSG_SRV_MSG"}

\* C21: after every successful send (Login, Command or ServerAck) the next
\* transport operation is a receive, never another send, and a session whose
\* last operation is a send is waiting in a receive; between two Commands
\* there is the end of the first one's cycle, so that one command at most is
\* outstanding.
C21_StopAndWait ==
    /\ \A i \in DOMAIN trace :
          (Sent(i) /\ i < Len(trace)) => ReceiveAt(i + 1)
    /\ (trace # <<>> /\ Sent(Len(trace))) => pc \in {"login_recv", "await"}
    /\ \A i, j \in CommandsAttempted :
          i < j => \E k \in (i + 1)..(j - 1) : CycleEndAt(k)
    /\ pc = "ready" => (CommandsAttempted = {} \/ LastCycleEnded)

\* A second Command was sent after the first one's cycle, in which a server
\* message was acknowledged and the wait resumed.
C21_Witness ==
    /\ Cardinality(CommandsAttempted) = 2 /\ Sent(LastCommand)
    /\ \E i \in DOMAIN trace :
          /\ i + 1 < LastCommand
          /\ Sent(i) /\ trace[i].msg.mType = "MSG_SRV_ACK"
          /\ CycleEndAt(i + 1)

\* The step is a pass of the inner loop that received a message of class
\* msgType.
CycleReceives(msgType) ==
    /\ pc = "await"
    /\ Len(trace') > Len(trace)
    /\ trace'[Len(trace) + 1].ev = "recv"
    /\ trace'[Len(trace) + 1].msg.mType = msgType

\* The step ends a command cycle without an error: back to the head of the
\* command loop, or, in a non-interactive run, to the clean end of the session.
CycleEndsCleanly ==
    /\ errKind' = "none"
    /\ IF interactive
       THEN pc' = "ready" /\ closed' = closed /\ exitCode' = exitCode
       ELSE pc' = "exited" /\ closed' = closed + 1 /\ exitCode' = 0

\* C22: a LoginResponse received while a command awaits its reply ends the
\* inner loop without an error: nothing is handed to the output, no packet is
\* sent in reaction, and the session goes on as if the command had completed.
C22_LoginResponseMidCycle ==
    [][CycleReceives("MSG_LOGIN_RESP") =>
          /\ CycleEndsCleanly
          /\ logged' = logged /\ output' = output
          /\ Len(trace') = Len(trace) + 1
          /\ Len(buf') = 9 /\ At(buf', 7) = 0
          /\ mNextSeqNum' = mNextSeqNum]_vars

\* An interactive session is back at its prompt after a LoginResponse was the
\* only reply to its command.
C22_Witness ==
    /\ pc = "ready" /\ interactive /\ Len(trace) = 4
    /\ Sent(3) /\ trace[3].msg.mType = "MSG_CMD"
    /\ Received(4, "MSG_LOGIN_RESP")
    /\ logged = <<>>

\* The message the step received.
ReceivedNow == trace'[Len(trace) + 1].msg

\* The step handed `text` and a line break to RconApp::log, once.
LogsNow(text) ==
    /\ logged' = Append(logged, Append(text, 10))
    /\ output' = IF quiet THEN output ELSE Append(output, Line(Append(text, 10)))

\* C24: a CommandResponse received in a command cycle ends the cycle and has
\* its text handed to the output, whatever its sequence number is.
C24_NoReplyCorrelation ==
    [][CycleReceives("MSG_CMD_RESP") =>
          /\ CycleEndsCleanly
          /\ LogsNow(ReceivedNow.mMsg)
          /\ Len(trace') = Len(trace) + 1]_vars

\* A CommandResponse with sequence number 9 has ended the cycle of the Command
\* with sequence number 0.
C24_Witness ==
    /\ pc = "ready" /\ Len(trace) = 4
    /\ Sent(3) /\ trace[3].msg.mType = "MSG_CMD" /\ trace[3].msg.mSeqNum = 0
    /\ Received(4, "MSG_CMD_RESP") /\ trace[4].msg.mSeqNum = 9
    /\ Len(logged) = 1

\* C25: a CommandPartialResponse never ends the command cycle, whatever its
\* part index and however many parts have arrived: its text is handed to the
\* output and the session waits on; a cycle ends without an error only on a
\* CommandResponse or a LoginResponse.
C25_PartialNeverCompletes ==
    [][/\ CycleReceives("MSG_CMD_PART_RESP") =>
             /\ pc' = "await" /\ errKind' = "none" /\ closed' = closed
             /\ LogsNow(ReceivedNow.mMsg)
       /\ (pc = "await" /\ pc' # "await" /\ errKind' = "none") =>
             /\ trace'[Len(trace')].ev = "recv"
             /\ trace'[Len(trace')].msg.mType \in {"MSG_CMD_RESP", "MSG_LOGIN_RESP"}]_vars

\* Both parts of a two-part reply have arrived, the last one last, and the
\* session is still waiting.
C25_Witness ==
    /\ pc = "await" /\ Len(trace) = 5
    /\ Received(4, "MSG_CMD_PART_RESP") /\ trace[4].msg.mPartIdx = 0
    /\ Received(5, "MSG_CMD_PART_RESP") /\ trace[5].msg.mPartIdx = 1
    /\ trace[5].msg.mNofParts = 2
    /\ Len(logged) = 2

(***************************************************************************)
(* Checked under LongSpec.                                                 *)
(***************************************************************************)
isCommandEvent(e) == e.ev \in {"send", "writefail"} /\ e.msg.mType = "MSG_CMD"

\* The Commands built in the run, in order.
CommandsBuilt == SelectSeq(trace, isCommandEvent)

\* C23: the k-th Command of a run carries sequence number (k-1) mod 256, and
\* the counter always equals the number of Commands built so far, modulo 256:
\* building and sending the Login or a ServerAck, and receiving a message,
\* leave it unchanged.
C23_SessionSequence ==
    LET cmds == CommandsBuilt
    IN  /\ \A k \in DOMAIN cmds : cmds[k].msg.mSeqNum = (k - 1) % 256
        /\ mNextSeqNum = Len(cmds) % 256

\* The 257th Command of a session has been sent with sequence number 0, after
\* 256 cycles with a ServerAck each.
C23_Witness ==
    /\ nCmds = 257 /\ pc = "await"
    /\ Sent(Len(trace)) /\ trace[Len(trace)].msg = Command(<<115>>, 0)
    /\ Sent(Len(trace) - 2) /\ trace[Len(trace) - 2].msg.mType = "MSG_SRV_ACK"
    /\ mNextSeqNum = 1

(***************************************************************************)
(* Checked under LiveSpec.                                                 *)
(***************************************************************************)
\* C29: a command cycle that has sent its Command and waits for the reply
\* eventually ends: run() is back at the head of its command loop, or it has
\* returned or ended with an exception.  It never waits for ever.
C29_CycleLiveness == (pc = "await") ~> (pc \in {"ready", "exited"})

\* A cycle that received a part of a reply and a server message (and sent the
\* ServerAck) was ended by the timeout.
C29_Witness ==
    /\ pc = "exited" /\ errMsg = "timeout"
    /\ trace[Len(trace)].ev = "timeout"
    /\ \E i, j \in 4..(Len(trace) - 1) :
          /\ Received(i, "MSG_CMD_PART_RESP")
          /\ Received(j, "MSG_SRV_MSG")
    /\ Sent(3) /\ trace[3].msg.mType = "MSG_CMD"

(***************************************************************************)
(* Checked under TwinSpec.                                                 *)
(***************************************************************************)
isSendEvent(e) == e.ev = "send"
isNotReply(l) == l.kind # "log"

\* The messages a run has sent, in order.
PacketsSent(tr) == SelectSeq(tr, isSendEvent)

\* C26 (as claimed): a run with quiet set, on the password, command inputs and
\* received packets of a run without it, uses up the same inputs, sends the
\* same packets (every ServerAck among them) and ends as that run ended: the
\* same exception or none, the same exit status; its output is that of the
\* other run without the reply texts.
C26_QuietNeutral ==
    first.done =>
        /\ pc = "exited" <=> script = <<>>
        /\ pc = "exited" =>
              /\ PacketsSent(trace) = PacketsSent(first.trace)
              /\ errKind = first.errKind /\ errMsg = first.errMsg
              /\ exitCode = first.exitCode
              /\ closed = first.closed
              /\ mNextSeqNum = first.mNextSeqNum
              /\ output = SelectSeq(first.output, isNotReply)

=============================================================================
